---- MODULE Spec2Model ----
(***************************************************************************)
(* A model of detect-speech.py: one invocation of the command-line tool,   *)
(* from argument parsing to the exit of the process.                       *)
(*                                                                         *)
(* Units.  Every value the script holds in (float) seconds is held here in *)
(* integer milliseconds; every sample count and sample index is in samples *)
(* at the detector rate (16000 Hz), as in the script.  All the durations   *)
(* the model enumerates are whole milliseconds, and every sample index the *)
(* script converts to a time is a multiple of 16 samples, so the           *)
(* conversions are exact.                                                  *)
(*                                                                         *)
(* Audio.  The content of the input file is a set of speech regions        *)
(* <<a, b>>, the half-open interval [a, b) in milliseconds; everything     *)
(* else is silence.  The file is at the detector rate already (no          *)
(* resampler), so a chunk of d milliseconds holds d * 16 samples.          *)
(*                                                                         *)
(* Detector.  VADIterator is a library class: the model keeps its counter  *)
(* of samples seen since the last reset and its triggered flag, and takes  *)
(* a window to be speech when one of its samples lies in a speech region.  *)
(* An onset or offset is reported at the counter value of the window in    *)
(* which the detector sees it (no padding, no minimum silence).            *)
(***************************************************************************)
EXTENDS Integers, Sequences, FiniteSets

VARIABLES
    args_trim_start,        \* --trim-start given on the command line
    args_trim_end,          \* --trim-end given on the command line
    file_duration,          \* the input file: its duration (ms)
    audio,                  \* the input file: its speech regions
    pc,                     \* where the script is
    exit_code,              \* the exit status of the process
    stderr,                 \* the diagnostics printed so far
    model_loaded,           \* load_silero_vad() returned
    model_state,            \* the model both iterators wrap: the windows its
                            \* recurrent state holds since its last reset
    decoder_open,           \* AudioDecoder(audio_path) returned
    trim_start,             \* parameter of trim_audio_based_on_speech
    trim_end,               \* parameter of trim_audio_based_on_speech
    total_duration_seconds,
    final_start_seconds,
    final_end_seconds,
    found_start_speech,
    found_end_speech,
    vad_iterator_start,     \* the forward pass's VADIterator
    vad_iterator_end,       \* the backward pass's VADIterator
    current_offset_seconds,
    chunk,                  \* the chunk being scanned: request times and length
    i,                      \* the window loop's index into the chunk
    last_speech_offset_in_chunk_vad_sr,
    is_speaking_in_chunk,
    command,                \* the ffmpeg command built
    ffmpeg_runs,            \* how many times subprocess.run was called
    output_file             \* the output file was written

vars == <<args_trim_start, args_trim_end, file_duration, audio, pc, exit_code,
          stderr, model_loaded, model_state, decoder_open, trim_start, trim_end,
          total_duration_seconds, final_start_seconds, final_end_seconds,
          found_start_speech, found_end_speech, vad_iterator_start,
          vad_iterator_end, current_offset_seconds, chunk, i,
          last_speech_offset_in_chunk_vad_sr, is_speaking_in_chunk, command,
          ffmpeg_runs, output_file>>

(***************************************************************************)
(* Constants of the script and units.                                      *)
(***************************************************************************)
VAD_SAMPLING_RATE == 16000

VAD_WINDOW_SIZE_SAMPLES == 512

\* chunk_processing_size_seconds = 5.0, in seconds
ChunkSeconds == 5

MsPerSecond == 1000

chunk_processing_size_seconds == ChunkSeconds * MsPerSecond

\* Python's None, and a value that is not None
None == {}

Some(x) == {x}

TheValue(o) == CHOOSE x \in o : TRUE

Min(x, y) == IF x <= y THEN x ELSE y

Max(x, y) == IF x >= y THEN x ELSE y

(***************************************************************************)
(* The inputs enumerated.                                                  *)
(***************************************************************************)
MaxDurationSeconds == 11

MaxBlips == 2

\* a file shorter than one detector window, and files of whole seconds
Durations == {24} \cup {s * MsPerSecond : s \in {2, 5, 7, MaxDurationSeconds}}

\* the length of the shortest region enumerated (ms): 128 samples
BlipMs == 8

\* region boundaries: the whole seconds and the instant BlipMs before each
Marks(T) ==
    {t \in {s * MsPerSecond - d : s \in 0..(T \div MsPerSecond), d \in {0, BlipMs}} :
        0 <= t /\ t <= T} \cup {T}

Blips(T) == {<<s * MsPerSecond - BlipMs, s * MsPerSecond>> : s \in 1..(T \div MsPerSecond)}

\* a blip and, after it, speech running from a whole second to the end of the file
BlipThenOpenSpeech(T) ==
    {{q[1], <<q[2] * MsPerSecond, T>>} :
        q \in {p \in Blips(T) \X (1..(T \div MsPerSecond)) :
                  p[1][2] < p[2] * MsPerSecond /\ p[2] * MsPerSecond < T}}

\* silence; one region between two marks; several blips; or a blip and
\* speech running to the end of the file
AudioInputs(T) ==
    {{}}
    \cup {{r} : r \in {q \in Marks(T) \X Marks(T) : q[1] < q[2]}}
    \cup {S \in SUBSET Blips(T) : Cardinality(S) >= 2 /\ Cardinality(S) <= MaxBlips}
    \cup BlipThenOpenSpeech(T)

(***************************************************************************)
(* Samples and time.                                                       *)
(***************************************************************************)
\* a time in ms as a sample position at the detector rate
SamplesAt(t) == (t * VAD_SAMPLING_RATE) \div MsPerSecond

\* samples / VAD_SAMPLING_RATE, a time (ms)
SecondsOf(samples) == (samples * MsPerSecond) \div VAD_SAMPLING_RATE

\* len(wav_chunk_vad_sr) for the chunk requested for [t0, t1)
ChunkLen(t0, t1) == SamplesAt(t1) - SamplesAt(t0)

\* the window wav_chunk_vad_sr[j : j + 512] of the chunk that starts at t0, in
\* a file with speech regions au, holds a sample of speech
WindowHasSpeechOn(au, t0, j) ==
    \E r \in au :
        /\ SamplesAt(r[1]) < SamplesAt(t0) + j + VAD_WINDOW_SIZE_SAMPLES
        /\ SamplesAt(r[2]) > SamplesAt(t0) + j

\* the same, of the input file
WindowHasSpeech(t0, j) == WindowHasSpeechOn(audio, t0, j)

(***************************************************************************)
(* VADIterator.                                                            *)
(***************************************************************************)
NoIterator == [created |-> FALSE, triggered |-> FALSE, current_sample |-> 0, fed |-> 0]

\* VADIterator(model): a new iterator, its states reset
NewIterator == [created |-> TRUE, triggered |-> FALSE, current_sample |-> 0, fed |-> 0]

\* reset_states()
ResetStates(vad) == [vad EXCEPT !.triggered = FALSE, !.current_sample = 0]

\* the iterator after one window
VADNext(vad, speech) ==
    [vad EXCEPT !.current_sample = @ + VAD_WINDOW_SIZE_SAMPLES,
                !.triggered = speech,
                !.fed = @ + 1]

\* speech_dict, what the call returns for one window
VADEvent(vad, speech) ==
    IF speech /\ ~vad.triggered
    THEN [kind |-> "start", index |-> vad.current_sample]
    ELSE IF ~speech /\ vad.triggered
         THEN [kind |-> "end", index |-> vad.current_sample]
         ELSE [kind |-> "none", index |-> 0]

\* the state of the model after model.reset_states(), which VADIterator(model)
\* and reset_states() both call
ModelReset == 0

\* the state of the model after one window went through it
ModelNext(m) == m + 1

MsgNoSpeechStart == "No speech detected at the start. Not creating an output file."

MsgNoSpeechEnd == "No speech detected at the end. Not creating an output file."

MsgModelLoad == "Failed to load Silero VAD model"

MsgAudioRead == "Failed to read audio file"

MsgFfmpegMissing == "Error: ffmpeg is not installed or not in your PATH."

MsgFfmpegFailed == "Error executing ffmpeg command:"

NoChunk == [start |-> 0, end |-> 0, len |-> 0]

NoCommand == [built |-> FALSE, ss |-> None, to |-> None]

Init ==
    /\ args_trim_start \in BOOLEAN
    /\ args_trim_end \in BOOLEAN
    /\ file_duration \in Durations
    /\ audio \in AudioInputs(file_duration)
    /\ pc = "main"
    /\ exit_code = 0
    /\ stderr = <<>>
    /\ model_loaded = FALSE
    /\ model_state = 0
    /\ decoder_open = FALSE
    /\ trim_start = FALSE
    /\ trim_end = FALSE
    /\ total_duration_seconds = 0
    /\ final_start_seconds = 0
    /\ final_end_seconds = 0
    /\ found_start_speech = FALSE
    /\ found_end_speech = FALSE
    /\ vad_iterator_start = NoIterator
    /\ vad_iterator_end = NoIterator
    /\ current_offset_seconds = 0
    /\ chunk = NoChunk
    /\ i = 0
    /\ last_speech_offset_in_chunk_vad_sr = None
    /\ is_speaking_in_chunk = FALSE
    /\ command = NoCommand
    /\ ffmpeg_runs = 0
    /\ output_file = FALSE

inputs == <<args_trim_start, args_trim_end, file_duration, audio>>

scan == <<found_start_speech, found_end_speech, vad_iterator_start, vad_iterator_end,
          current_offset_seconds, chunk, i, last_speech_offset_in_chunk_vad_sr,
          is_speaking_in_chunk>>

result == <<total_duration_seconds, final_start_seconds, final_end_seconds>>

external == <<command, ffmpeg_runs, output_file>>

\* sys.exit(code), or the return of the script
Exit(code) ==
    /\ pc' = "exited"
    /\ exit_code' = code

(***************************************************************************)
(* __main__ and the start of trim_audio_based_on_speech                    *)
(***************************************************************************)
\* Main with trim_end left at the parameter's default
MainEndAlways ==
    /\ pc = "main"
    /\ trim_start' = (args_trim_start \/ (~args_trim_start /\ ~args_trim_end))
    /\ trim_end' = TRUE
    /\ pc' = "load_model"
    /\ UNCHANGED <<inputs, exit_code, stderr, model_loaded, model_state, decoder_open, scan,
                   result, external>>

Main ==
    /\ pc = "main"
    /\ trim_start' = (args_trim_start \/ (~args_trim_start /\ ~args_trim_end))
    /\ trim_end' = (args_trim_end \/ (~args_trim_start /\ ~args_trim_end))
    /\ pc' = "load_model"
    /\ UNCHANGED <<inputs, exit_code, stderr, model_loaded, model_state, decoder_open, scan,
                   result, external>>

LoadModel ==
    /\ pc = "load_model"
    /\ model_loaded' = TRUE
    /\ pc' = "open_audio"
    /\ model_state' = ModelReset
    /\ UNCHANGED <<inputs, exit_code, stderr, decoder_open, trim_start, trim_end,
                   scan, result, external>>

LoadModelFailed ==
    /\ pc = "load_model"
    /\ stderr' = Append(stderr, MsgModelLoad)
    /\ Exit(1)
    /\ UNCHANGED <<inputs, model_loaded, model_state, decoder_open, trim_start, trim_end, scan,
                   result, external>>

OpenAudio ==
    /\ pc = "open_audio"
    /\ decoder_open' = TRUE
    /\ total_duration_seconds' = file_duration
    /\ final_start_seconds' = 0
    /\ final_end_seconds' = file_duration
    /\ pc' = "trim_start"
    /\ UNCHANGED <<inputs, exit_code, stderr, model_loaded, model_state, trim_start, trim_end,
                   scan, external>>

OpenAudioFailed ==
    /\ pc = "open_audio"
    /\ stderr' = Append(stderr, MsgAudioRead)
    /\ Exit(1)
    /\ UNCHANGED <<inputs, model_loaded, model_state, decoder_open, trim_start, trim_end, scan,
                   result, external>>

\* what no step of either pass changes
setup == <<inputs, model_loaded, decoder_open, trim_start, trim_end,
           total_duration_seconds, external>>

bwd_state == <<found_end_speech, vad_iterator_end, last_speech_offset_in_chunk_vad_sr,
               is_speaking_in_chunk, final_end_seconds>>

fwd_state == <<found_start_speech, vad_iterator_start, final_start_seconds>>

(***************************************************************************)
(* Trim start: the forward pass                                            *)
(***************************************************************************)
BeginTrimStart ==
    /\ pc = "trim_start"
    /\ trim_start
    /\ found_start_speech' = FALSE
    /\ vad_iterator_start' = NewIterator
    /\ current_offset_seconds' = 0
    /\ pc' = "fwd_loop"
    /\ model_state' = ModelReset
    /\ UNCHANGED <<setup, bwd_state, exit_code, stderr, final_start_seconds, chunk, i>>

SkipTrimStart ==
    /\ pc = "trim_start"
    /\ ~trim_start
    /\ pc' = "trim_end"
    /\ UNCHANGED <<setup, model_state, bwd_state, fwd_state, exit_code, stderr,
                   current_offset_seconds, chunk, i>>

\* FwdFetchChunk without the min that ends the last chunk at the end of the file
FwdFetchChunkNoMin ==
    /\ pc = "fwd_loop"
    /\ current_offset_seconds < total_duration_seconds
    /\ LET chunk_end_for_request ==
               current_offset_seconds + chunk_processing_size_seconds
       IN chunk' = [start |-> current_offset_seconds,
                    end |-> chunk_end_for_request,
                    len |-> ChunkLen(current_offset_seconds, chunk_end_for_request)]
    /\ i' = 0
    /\ pc' = "fwd_windows"
    /\ UNCHANGED <<setup, model_state, bwd_state, fwd_state, exit_code, stderr,
                   current_offset_seconds>>

\* the chunk [current_offset_seconds, chunk_end_for_request) is decoded
FwdFetchChunk ==
    /\ pc = "fwd_loop"
    /\ current_offset_seconds < total_duration_seconds
    /\ LET chunk_end_for_request ==
               Min(current_offset_seconds + chunk_processing_size_seconds,
                   total_duration_seconds)
       IN chunk' = [start |-> current_offset_seconds,
                    end |-> chunk_end_for_request,
                    len |-> ChunkLen(current_offset_seconds, chunk_end_for_request)]
    /\ i' = 0
    /\ pc' = "fwd_windows"
    /\ UNCHANGED <<setup, model_state, bwd_state, fwd_state, exit_code, stderr,
                   current_offset_seconds>>

\* the start time the forward pass takes from a SpeechStart event
FwdStartSeconds(speech_dict) == SecondsOf(speech_dict.index)

\* FwdWindow without the break on a SpeechStart
FwdWindowNoBreak ==
    /\ pc = "fwd_windows"
    /\ i < chunk.len
    /\ i + VAD_WINDOW_SIZE_SAMPLES <= chunk.len
    /\ LET speech == WindowHasSpeech(chunk.start, i)
           speech_dict == VADEvent(vad_iterator_start, speech)
       IN /\ vad_iterator_start' = VADNext(vad_iterator_start, speech)
          /\ IF speech_dict.kind = "start"
             THEN /\ final_start_seconds' = FwdStartSeconds(speech_dict)
                  /\ found_start_speech' = TRUE
             ELSE UNCHANGED <<final_start_seconds, found_start_speech>>
    /\ i' = i + VAD_WINDOW_SIZE_SAMPLES
    /\ model_state' = ModelNext(model_state)
    /\ UNCHANGED <<setup, bwd_state, exit_code, stderr, current_offset_seconds, chunk, pc>>

\* one complete window is fed to vad_iterator_start
FwdWindow ==
    /\ pc = "fwd_windows"
    /\ i < chunk.len
    /\ i + VAD_WINDOW_SIZE_SAMPLES <= chunk.len
    /\ LET speech == WindowHasSpeech(chunk.start, i)
           speech_dict == VADEvent(vad_iterator_start, speech)
       IN /\ vad_iterator_start' = VADNext(vad_iterator_start, speech)
          /\ IF speech_dict.kind = "start"
             THEN /\ final_start_seconds' = FwdStartSeconds(speech_dict)
                  /\ found_start_speech' = TRUE
                  /\ pc' = "trim_end"
                  /\ i' = i
             ELSE /\ i' = i + VAD_WINDOW_SIZE_SAMPLES
                  /\ UNCHANGED <<final_start_seconds, found_start_speech, pc>>
    /\ model_state' = ModelNext(model_state)
    /\ UNCHANGED <<setup, bwd_state, exit_code, stderr, current_offset_seconds, chunk>>

\* FwdPartialWindow handing the partial window to the detector
FwdPartialWindowFed ==
    /\ pc = "fwd_windows"
    /\ i < chunk.len
    /\ i + VAD_WINDOW_SIZE_SAMPLES > chunk.len
    /\ vad_iterator_start' = VADNext(vad_iterator_start, WindowHasSpeech(chunk.start, i))
    /\ model_state' = ModelNext(model_state)
    /\ i' = i + VAD_WINDOW_SIZE_SAMPLES
    /\ UNCHANGED <<setup, bwd_state, found_start_speech, final_start_seconds, exit_code,
                   stderr, pc, current_offset_seconds, chunk>>

\* the partial window at the end of the chunk is skipped
FwdPartialWindow ==
    /\ pc = "fwd_windows"
    /\ i < chunk.len
    /\ i + VAD_WINDOW_SIZE_SAMPLES > chunk.len
    /\ i' = i + VAD_WINDOW_SIZE_SAMPLES
    /\ UNCHANGED <<setup, model_state, bwd_state, fwd_state, exit_code, stderr, pc,
                   current_offset_seconds, chunk>>

\* the chunk held no SpeechStart: on to the next chunk
FwdChunkDone ==
    /\ pc = "fwd_windows"
    /\ i >= chunk.len
    /\ current_offset_seconds' = chunk.end
    /\ pc' = "fwd_loop"
    /\ UNCHANGED <<setup, model_state, bwd_state, fwd_state, exit_code, stderr, chunk, i>>

\* FwdNoSpeech without its return: the script goes on to the end side
FwdNoSpeechFallsThrough ==
    /\ pc = "fwd_loop"
    /\ ~(current_offset_seconds < total_duration_seconds)
    /\ ~found_start_speech
    /\ stderr' = Append(stderr, MsgNoSpeechStart)
    /\ pc' = "trim_end"
    /\ UNCHANGED <<setup, model_state, bwd_state, fwd_state, exit_code, current_offset_seconds,
                   chunk, i>>

\* FwdNoSpeech leaving through sys.exit(1), as the fatal errors do
FwdNoSpeechExitsOne ==
    /\ pc = "fwd_loop"
    /\ ~(current_offset_seconds < total_duration_seconds)
    /\ ~found_start_speech
    /\ stderr' = Append(stderr, MsgNoSpeechStart)
    /\ Exit(1)
    /\ UNCHANGED <<setup, model_state, bwd_state, fwd_state, current_offset_seconds, chunk, i>>

\* every chunk was scanned and no speech found: the function returns
FwdNoSpeech ==
    /\ pc = "fwd_loop"
    /\ ~(current_offset_seconds < total_duration_seconds)
    /\ ~found_start_speech
    /\ stderr' = Append(stderr, MsgNoSpeechStart)
    /\ Exit(0)
    /\ UNCHANGED <<setup, model_state, bwd_state, fwd_state, current_offset_seconds, chunk, i>>

(***************************************************************************)
(* Trim end: the backward pass                                             *)
(***************************************************************************)
\* BeginTrimEnd going on with the forward pass's iterator, no new one made
BeginTrimEndSharesIterator ==
    /\ pc = "trim_end"
    /\ trim_end
    /\ found_end_speech' = FALSE
    /\ vad_iterator_end' = vad_iterator_start
    /\ current_offset_seconds' = total_duration_seconds
    /\ pc' = "bwd_loop"
    /\ UNCHANGED <<setup, model_state, fwd_state, exit_code, stderr, final_end_seconds,
                   chunk, i, last_speech_offset_in_chunk_vad_sr, is_speaking_in_chunk>>

BeginTrimEnd ==
    /\ pc = "trim_end"
    /\ trim_end
    /\ found_end_speech' = FALSE
    /\ vad_iterator_end' = NewIterator
    /\ current_offset_seconds' = total_duration_seconds
    /\ pc' = "bwd_loop"
    /\ model_state' = ModelReset
    /\ UNCHANGED <<setup, fwd_state, exit_code, stderr, final_end_seconds, chunk, i,
                   last_speech_offset_in_chunk_vad_sr, is_speaking_in_chunk>>

SkipTrimEnd ==
    /\ pc = "trim_end"
    /\ ~trim_end
    /\ pc' = "command"
    /\ UNCHANGED <<setup, model_state, bwd_state, fwd_state, exit_code, stderr,
                   current_offset_seconds, chunk, i>>

\* BwdFetchChunk without the call of reset_states
BwdFetchChunkNoReset ==
    /\ pc = "bwd_loop"
    /\ current_offset_seconds > 0
    /\ LET chunk_start_for_request ==
               Max(0, current_offset_seconds - chunk_processing_size_seconds)
       IN chunk' = [start |-> chunk_start_for_request,
                    end |-> current_offset_seconds,
                    len |-> ChunkLen(chunk_start_for_request, current_offset_seconds)]
    /\ last_speech_offset_in_chunk_vad_sr' = None
    /\ is_speaking_in_chunk' = FALSE
    /\ i' = 0
    /\ pc' = "bwd_windows"
    /\ UNCHANGED <<setup, model_state, fwd_state, exit_code, stderr, found_end_speech,
                   final_end_seconds, current_offset_seconds, vad_iterator_end>>

\* the chunk [chunk_start_for_request, current_offset_seconds) is decoded and
\* the detector reset
BwdFetchChunk ==
    /\ pc = "bwd_loop"
    /\ current_offset_seconds > 0
    /\ LET chunk_start_for_request ==
               Max(0, current_offset_seconds - chunk_processing_size_seconds)
       IN chunk' = [start |-> chunk_start_for_request,
                    end |-> current_offset_seconds,
                    len |-> ChunkLen(chunk_start_for_request, current_offset_seconds)]
    /\ last_speech_offset_in_chunk_vad_sr' = None
    /\ is_speaking_in_chunk' = FALSE
    /\ vad_iterator_end' = ResetStates(vad_iterator_end)
    /\ i' = 0
    /\ pc' = "bwd_windows"
    /\ model_state' = ModelReset
    /\ UNCHANGED <<setup, fwd_state, exit_code, stderr, found_end_speech,
                   final_end_seconds, current_offset_seconds>>

\* is_speaking_in_chunk after an event
BwdSpeaking(speaking, speech_dict) ==
    IF speech_dict.kind = "end" THEN FALSE
    ELSE IF speech_dict.kind = "start" THEN TRUE
    ELSE speaking

\* last_speech_offset_in_chunk_vad_sr after an event
BwdLastOffset(last, speech_dict) ==
    IF speech_dict.kind = "end" THEN Some(speech_dict.index) ELSE last

\* one complete window is fed to vad_iterator_end
BwdWindow ==
    /\ pc = "bwd_windows"
    /\ i < chunk.len
    /\ i + VAD_WINDOW_SIZE_SAMPLES <= chunk.len
    /\ LET speech == WindowHasSpeech(chunk.start, i)
           speech_dict == VADEvent(vad_iterator_end, speech)
       IN /\ vad_iterator_end' = VADNext(vad_iterator_end, speech)
          /\ is_speaking_in_chunk' = BwdSpeaking(is_speaking_in_chunk, speech_dict)
          /\ last_speech_offset_in_chunk_vad_sr' =
                 BwdLastOffset(last_speech_offset_in_chunk_vad_sr, speech_dict)
    /\ i' = i + VAD_WINDOW_SIZE_SAMPLES
    /\ model_state' = ModelNext(model_state)
    /\ UNCHANGED <<setup, fwd_state, exit_code, stderr, pc, found_end_speech,
                   final_end_seconds, current_offset_seconds, chunk>>

BwdPartialWindow ==
    /\ pc = "bwd_windows"
    /\ i < chunk.len
    /\ i + VAD_WINDOW_SIZE_SAMPLES > chunk.len
    /\ i' = i + VAD_WINDOW_SIZE_SAMPLES
    /\ UNCHANGED <<setup, model_state, bwd_state, fwd_state, exit_code, stderr, pc,
                   current_offset_seconds, chunk>>

\* BwdChunkOffset without the case of speech running to the end of the chunk
BwdChunkOffsetNoOpenSpeech(speaking, last, len) == last

\* BwdChunkOffset keeping a recorded SpeechEnd when the chunk ends in speech
BwdChunkOffsetKeepsEnd(speaking, last, len) ==
    IF last # None THEN last ELSE IF speaking THEN Some(len) ELSE None

\* the local end offset of the chunk once its windows are exhausted
BwdChunkOffset(speaking, last, len) ==
    IF speaking THEN Some(len) ELSE last

\* the global end time for a local end offset
BwdEndSeconds(chunk_start_for_request, offset) ==
    chunk_start_for_request + SecondsOf(offset)

\* BwdChunkDone without the break once an end was found
BwdChunkDoneNoBreak ==
    /\ pc = "bwd_windows"
    /\ i >= chunk.len
    /\ LET offset == BwdChunkOffset(is_speaking_in_chunk,
                                    last_speech_offset_in_chunk_vad_sr, chunk.len)
       IN /\ last_speech_offset_in_chunk_vad_sr' = offset
          /\ IF offset # None
             THEN /\ final_end_seconds' = BwdEndSeconds(chunk.start, TheValue(offset))
                  /\ found_end_speech' = TRUE
             ELSE UNCHANGED <<final_end_seconds, found_end_speech>>
    /\ current_offset_seconds' = chunk.start
    /\ pc' = "bwd_loop"
    /\ UNCHANGED <<setup, model_state, fwd_state, exit_code, stderr, vad_iterator_end,
                   is_speaking_in_chunk, chunk, i>>

\* the windows of the chunk are exhausted
BwdChunkDone ==
    /\ pc = "bwd_windows"
    /\ i >= chunk.len
    /\ LET offset == BwdChunkOffset(is_speaking_in_chunk,
                                    last_speech_offset_in_chunk_vad_sr, chunk.len)
       IN /\ last_speech_offset_in_chunk_vad_sr' = offset
          /\ IF offset # None
             THEN /\ final_end_seconds' = BwdEndSeconds(chunk.start, TheValue(offset))
                  /\ found_end_speech' = TRUE
                  /\ pc' = "command"
                  /\ UNCHANGED current_offset_seconds
             ELSE /\ current_offset_seconds' = chunk.start
                  /\ pc' = "bwd_loop"
                  /\ UNCHANGED <<final_end_seconds, found_end_speech>>
    /\ UNCHANGED <<setup, model_state, fwd_state, exit_code, stderr, vad_iterator_end,
                   is_speaking_in_chunk, chunk, i>>

BwdNoSpeech ==
    /\ pc = "bwd_loop"
    /\ ~(current_offset_seconds > 0)
    /\ ~found_end_speech
    /\ stderr' = Append(stderr, MsgNoSpeechEnd)
    /\ Exit(0)
    /\ UNCHANGED <<setup, model_state, bwd_state, fwd_state, current_offset_seconds, chunk, i>>

(***************************************************************************)
(* The ffmpeg command and its run                                          *)
(***************************************************************************)
\* CommandTo with <= for <
CommandToInclusive(end_seconds, total) ==
    IF end_seconds <= total THEN Some(end_seconds) ELSE None

\* the -to argument of the command, None when it carries none
CommandTo(end_seconds, total) ==
    IF end_seconds < total THEN Some(end_seconds) ELSE None

BuildCommand ==
    /\ pc = "command"
    /\ command' = [built |-> TRUE,
                   ss |-> Some(final_start_seconds),
                   to |-> CommandTo(final_end_seconds, total_duration_seconds)]
    /\ stderr' = Append(Append(stderr,
                     IF final_end_seconds < total_duration_seconds
                     THEN "Detected speech from .. to ..."
                     ELSE "Detected speech from ..."),
                     "Trimming audio and saving")
    /\ pc' = "run"
    /\ UNCHANGED <<inputs, model_loaded, model_state, decoder_open, trim_start, trim_end, scan,
                   result, exit_code, ffmpeg_runs, output_file>>

\* subprocess.run returned: ffmpeg exited with 0
RunFfmpeg ==
    /\ pc = "run"
    /\ ffmpeg_runs' = ffmpeg_runs + 1
    /\ output_file' = TRUE
    /\ stderr' = Append(stderr, "Successfully created")
    /\ Exit(0)
    /\ UNCHANGED <<inputs, model_loaded, model_state, decoder_open, trim_start, trim_end, scan,
                   result, command>>

\* FileNotFoundError: no ffmpeg to run
FfmpegMissing ==
    /\ pc = "run"
    /\ ffmpeg_runs' = ffmpeg_runs + 1
    /\ stderr' = Append(stderr, MsgFfmpegMissing)
    /\ Exit(1)
    /\ UNCHANGED <<inputs, model_loaded, model_state, decoder_open, trim_start, trim_end, scan,
                   result, command, output_file>>

\* FfmpegFailed running the command again instead of exiting
FfmpegFailedRetries ==
    /\ pc = "run"
    /\ ffmpeg_runs' = ffmpeg_runs + 1
    /\ stderr' = Append(stderr, MsgFfmpegFailed)
    /\ UNCHANGED <<inputs, model_loaded, model_state, decoder_open, trim_start, trim_end, scan,
                   result, command, output_file, pc, exit_code>>

\* CalledProcessError: ffmpeg exited with a non-zero code
FfmpegFailed ==
    /\ pc = "run"
    /\ ffmpeg_runs' = ffmpeg_runs + 1
    /\ stderr' = Append(stderr, MsgFfmpegFailed)
    /\ Exit(1)
    /\ UNCHANGED <<inputs, model_loaded, model_state, decoder_open, trim_start, trim_end, scan,
                   result, command, output_file>>

Next ==
    \/ Main
    \/ LoadModel
    \/ LoadModelFailed
    \/ OpenAudio
    \/ OpenAudioFailed
    \/ BeginTrimStart
    \/ SkipTrimStart
    \/ FwdFetchChunk
    \/ FwdWindow
    \/ FwdPartialWindow
    \/ FwdChunkDone
    \/ FwdNoSpeech
    \/ BeginTrimEnd
    \/ SkipTrimEnd
    \/ BwdFetchChunk
    \/ BwdWindow
    \/ BwdPartialWindow
    \/ BwdChunkDone
    \/ BwdNoSpeech
    \/ BuildCommand
    \/ RunFfmpeg
    \/ FfmpegMissing
    \/ FfmpegFailed

Spec == Init /\ [][Next]_vars

\* the interpreter runs the script on: a step that can be taken is taken
FairSpec == Spec /\ WF_vars(Next)

(***************************************************************************)
(* The two passes as functions of the chunk size: the loops above, run to  *)
(* their end on the input file with chunk_processing_size_seconds = size.  *)
(***************************************************************************)
\* the complete windows of a chunk: range(0, len, 512) less the partial one
FullWindows(len) == len \div VAD_WINDOW_SIZE_SAMPLES

\* one iteration of the forward window loop, on window number k of the chunk
\* at t0 of a file with speech regions au; nothing once the loop has been left
FwdScanStepOn(au, t0, k, st) ==
    IF st.found
    THEN st
    ELSE LET speech == WindowHasSpeechOn(au, t0, k * VAD_WINDOW_SIZE_SAMPLES)
             speech_dict == VADEvent(st.vad, speech)
         IN IF speech_dict.kind = "start"
            THEN [found |-> TRUE, start |-> FwdStartSeconds(speech_dict),
                  vad |-> VADNext(st.vad, speech)]
            ELSE [st EXCEPT !.vad = VADNext(st.vad, speech)]

RECURSIVE FwdScanWindowsOn(_, _, _, _, _)
\* the forward window loop over windows lo .. hi - 1, in order
FwdScanWindowsOn(au, t0, lo, hi, st) ==
    IF hi <= lo THEN st
    ELSE IF hi = lo + 1 THEN FwdScanStepOn(au, t0, lo, st)
    ELSE LET mid == (lo + hi) \div 2
             left == FwdScanWindowsOn(au, t0, lo, mid, st)
         IN IF left.found THEN left ELSE FwdScanWindowsOn(au, t0, mid, hi, left)

RECURSIVE FwdScanChunksOn(_, _, _, _, _)
\* the chunk loop of the forward pass from offset, on a file of duration T
FwdScanChunksOn(au, T, offset, vad, size) ==
    IF ~(offset < T)
    THEN [found |-> FALSE, start |-> 0]
    ELSE LET chunk_end_for_request == Min(offset + size, T)
             r == FwdScanWindowsOn(au, offset, 0,
                                   FullWindows(ChunkLen(offset, chunk_end_for_request)),
                                   [found |-> FALSE, start |-> 0, vad |-> vad])
         IN IF r.found
            THEN [found |-> TRUE, start |-> r.start]
            ELSE FwdScanChunksOn(au, T, chunk_end_for_request, r.vad, size)

\* the forward pass with chunks of size (ms) on a file of duration T with
\* speech regions au
FwdScanOn(au, T, size) == FwdScanChunksOn(au, T, 0, NewIterator, size)

FwdScanStep(t0, k, st) == FwdScanStepOn(audio, t0, k, st)

FwdScanWindows(t0, lo, hi, st) == FwdScanWindowsOn(audio, t0, lo, hi, st)

FwdScanChunks(offset, vad, size) == FwdScanChunksOn(audio, file_duration, offset, vad, size)

\* the forward pass with chunks of size (ms) on the input file
FwdScan(size) == FwdScanChunks(0, NewIterator, size)

\* one iteration of the backward window loop, on window number k of the
\* chunk at t0 of a file with speech regions au
BwdScanStepOn(au, t0, k, st) ==
    LET speech == WindowHasSpeechOn(au, t0, k * VAD_WINDOW_SIZE_SAMPLES)
        speech_dict == VADEvent(st.vad, speech)
    IN [vad |-> VADNext(st.vad, speech),
        speaking |-> BwdSpeaking(st.speaking, speech_dict),
        last |-> BwdLastOffset(st.last, speech_dict)]

RECURSIVE BwdScanWindowsOn(_, _, _, _, _)
\* the backward window loop over windows lo .. hi - 1, in order
BwdScanWindowsOn(au, t0, lo, hi, st) ==
    IF hi <= lo THEN st
    ELSE IF hi = lo + 1 THEN BwdScanStepOn(au, t0, lo, st)
    ELSE LET mid == (lo + hi) \div 2
             left == BwdScanWindowsOn(au, t0, lo, mid, st)
         IN IF left.vad.created THEN BwdScanWindowsOn(au, t0, mid, hi, left) ELSE left

\* the local end offset of the backward chunk [t0, t1), None without speech
BwdChunkResultOn(au, t0, t1, vad) ==
    LET len == ChunkLen(t0, t1)
        r == BwdScanWindowsOn(au, t0, 0, FullWindows(len),
                              [vad |-> ResetStates(vad), speaking |-> FALSE,
                               last |-> None])
    IN BwdChunkOffset(r.speaking, r.last, len)

RECURSIVE BwdScanChunksOn(_, _, _, _)
\* the chunk loop of the backward pass from offset
BwdScanChunksOn(au, offset, vad, size) ==
    IF ~(offset > 0)
    THEN [found |-> FALSE, end |-> 0]
    ELSE LET chunk_start_for_request == Max(0, offset - size)
             o == BwdChunkResultOn(au, chunk_start_for_request, offset, vad)
         IN IF o # None
            THEN [found |-> TRUE, end |-> BwdEndSeconds(chunk_start_for_request, TheValue(o))]
            ELSE BwdScanChunksOn(au, chunk_start_for_request, vad, size)

\* the backward pass with chunks of size (ms) on a file of duration T with
\* speech regions au
BwdScanOn(au, T, size) == BwdScanChunksOn(au, T, NewIterator, size)

BwdScanStep(t0, k, st) == BwdScanStepOn(audio, t0, k, st)

BwdScanWindows(t0, lo, hi, st) == BwdScanWindowsOn(audio, t0, lo, hi, st)

BwdScanChunks(offset, vad, size) == BwdScanChunksOn(audio, offset, vad, size)

\* the backward pass with chunks of size (ms) on the input file
BwdScan(size) == BwdScanChunks(file_duration, NewIterator, size)

\* the other chunk sizes the passes are compared under (seconds)
AltChunkSeconds == {2, 3, 10}

\* the passes of the script are the functions above at the script's chunk size
ScanAgreement ==
    /\ (pc = "trim_end" /\ trim_start) =>
           FwdScan(chunk_processing_size_seconds) =
               [found |-> TRUE, start |-> final_start_seconds]
    /\ (pc = "command" /\ trim_end) =>
           BwdScan(chunk_processing_size_seconds) =
               [found |-> TRUE, end |-> final_end_seconds]
    /\ (pc = "exited" /\ ~command.built /\ decoder_open /\ trim_start /\ ~found_start_speech) =>
           ~FwdScan(chunk_processing_size_seconds).found
    /\ (pc = "exited" /\ ~command.built /\ decoder_open /\ trim_end
           /\ (trim_start => found_start_speech)) =>
           ~BwdScan(chunk_processing_size_seconds).found

(***************************************************************************)
(* The file ffmpeg writes: the samples of the input from -ss to -to, or to *)
(* the end of the input without -to.                                       *)
(***************************************************************************)
TrimmedDuration == final_end_seconds - final_start_seconds

TrimmedAudio ==
    {<<Max(r[1], final_start_seconds) - final_start_seconds,
       Min(r[2], final_end_seconds) - final_start_seconds>> :
        r \in {q \in audio : q[1] < final_end_seconds /\ q[2] > final_start_seconds}}


(***************************************************************************)
(* Claims                                                                  *)
(***************************************************************************)

\* C1: whenever the trim command has been built, the resolved window
\* satisfies 0 <= final_start_seconds <= final_end_seconds <=
\* total_duration_seconds.
C1_WindowOrdered ==
    command.built =>
        /\ 0 <= final_start_seconds
        /\ final_start_seconds <= final_end_seconds
        /\ final_end_seconds <= total_duration_seconds

\* the time one detector window lasts (ms)
WindowDuration == SecondsOf(VAD_WINDOW_SIZE_SAMPLES)

Abs(x) == IF x < 0 THEN -x ELSE x

InStderr(msg) == \E k \in 1..Len(stderr) : stderr[k] = msg

\* the script got as far as the passes
Scanning == model_loaded /\ decoder_open

\* the forward pass ran to the end of the file and found no speech
ForwardFailed == Scanning /\ trim_start /\ ~found_start_speech /\ pc = "exited"

\* the backward pass ran to the start of the file and found no speech
BackwardFailed ==
    /\ Scanning /\ trim_end /\ ~found_end_speech /\ pc = "exited"
    /\ (trim_start => found_start_speech)

\* C2: when an enabled pass has exhausted its chunks without speech, the
\* script has ended without running ffmpeg and without an output file, with
\* exit code 0, and the only message names the side that failed.
C2_NoSpeechAborts ==
    /\ ForwardFailed =>
           /\ ffmpeg_runs = 0 /\ ~command.built /\ ~output_file
           /\ exit_code = 0
           /\ stderr = <<MsgNoSpeechStart>>
    /\ BackwardFailed =>
           /\ ffmpeg_runs = 0 /\ ~command.built /\ ~output_file
           /\ exit_code = 0
           /\ stderr = <<MsgNoSpeechEnd>>
    /\ (pc = "fwd_loop" /\ ~(current_offset_seconds < total_duration_seconds)) =>
           ~found_start_speech /\ ~ENABLED FwdFetchChunk
    /\ (pc = "bwd_loop" /\ ~(current_offset_seconds > 0)) =>
           ~found_end_speech /\ ~ENABLED BwdFetchChunk

\* a backward pass that failed after a forward pass that found speech
C2_Witness ==
    /\ BackwardFailed /\ trim_start /\ found_start_speech
    /\ vad_iterator_end.fed > 0

\* C3: once the forward pass has returned a start time, the forward pass
\* run with any other chunk size returns the same start time.
C3_ForwardChunkInvariance ==
    (pc = "trim_end" /\ trim_start) =>
        \A c \in AltChunkSeconds :
            FwdScan(c * MsPerSecond) = [found |-> TRUE, start |-> final_start_seconds]

\* C4: once the backward pass has resolved the end boundary, the backward
\* pass run with any other chunk size resolves the same end boundary.
C4_EndChunkInvariance ==
    (pc = "command" /\ trim_end) =>
        \A c \in AltChunkSeconds :
            BwdScan(c * MsPerSecond) = [found |-> TRUE, end |-> final_end_seconds]

\* C5: for a file with one speech region [a, b), the resolved start is less
\* than one window duration from a and the resolved end less than one
\* window duration from b.
C5_GranularityBound ==
    (command.built /\ trim_start /\ trim_end /\ Cardinality(audio) = 1) =>
        \A r \in audio :
            /\ Abs(final_start_seconds - r[1]) < WindowDuration
            /\ Abs(final_end_seconds - r[2]) < WindowDuration

\* the file is speech from its first sample to its last, and holds a window
PureSpeech ==
    /\ audio = {<<0, file_duration>>}
    /\ file_duration >= WindowDuration

\* C6: for a file that is speech throughout the script reaches the trim
\* command, with start 0, end the total duration and no end bound.
C6_PureSpeech ==
    PureSpeech =>
        /\ (pc = "exited" /\ Scanning) => command.built
        /\ command.built =>
               /\ final_start_seconds = 0
               /\ final_end_seconds = total_duration_seconds
               /\ command.ss = Some(0)
               /\ command.to = None
        /\ (pc = "trim_end" /\ trim_start) => final_start_seconds = 0
        /\ (pc = "command" /\ trim_end) => final_end_seconds = total_duration_seconds

\* pure speech scanned from both sides, the command built
C6_Witness ==
    /\ PureSpeech /\ command.built /\ trim_start /\ trim_end
    /\ found_start_speech /\ found_end_speech
    /\ vad_iterator_start.fed > 0 /\ vad_iterator_end.fed > 0

\* the file is silence throughout and both sides are to be trimmed
PureSilenceBothSides == audio = {} /\ trim_start /\ trim_end /\ Scanning

\* C7 as stated: on pure silence with both sides enabled (the detector was
\* fed and emitted no event) both passes report "no speech", no output file
\* is produced and the exit code is 0.
C7_BothPassesReport ==
    (PureSilenceBothSides /\ pc = "exited" /\ vad_iterator_start.fed > 0) =>
        /\ InStderr(MsgNoSpeechStart)
        /\ InStderr(MsgNoSpeechEnd)
        /\ ~output_file
        /\ exit_code = 0

\* C7 amended: on pure silence with both sides enabled the forward pass
\* reports "no speech" and the script returns at once: the backward pass
\* does not run and reports nothing, ffmpeg is not run, no output file is
\* produced and the exit code is 0.
C7_ForwardReportsOnly ==
    PureSilenceBothSides =>
        /\ vad_iterator_end = NoIterator
        /\ ~InStderr(MsgNoSpeechEnd)
        /\ ~found_start_speech /\ ~found_end_speech
        /\ ffmpeg_runs = 0 /\ ~command.built /\ ~output_file
        /\ pc = "exited" => (stderr = <<MsgNoSpeechStart>> /\ exit_code = 0)
        /\ pc \in {"trim_start", "fwd_loop", "fwd_windows", "exited"}

\* pure silence, both sides enabled, every forward chunk scanned, the exit
C7_Witness ==
    /\ PureSilenceBothSides /\ pc = "exited"
    /\ file_duration > chunk_processing_size_seconds
    /\ vad_iterator_start.fed > 0

OnlyTrimStartGiven == args_trim_start /\ ~args_trim_end

OnlyTrimEndGiven == args_trim_end /\ ~args_trim_start

NeitherGiven == ~args_trim_start /\ ~args_trim_end

\* C8: with neither flag both passes run; with one flag only that pass
\* runs, the other detector is never created nor fed and the other boundary
\* stays at its natural extreme.
C8_SideSelection ==
    /\ (NeitherGiven /\ command.built) =>
           vad_iterator_start.created /\ vad_iterator_end.created
    /\ (NeitherGiven /\ pc = "exited" /\ Scanning) => vad_iterator_start.created
    /\ OnlyTrimEndGiven =>
           /\ vad_iterator_start = NoIterator
           /\ final_start_seconds = 0
           /\ command.built => (command.ss = Some(0) /\ vad_iterator_end.created)
           /\ (pc = "exited" /\ Scanning) => vad_iterator_end.created
    /\ OnlyTrimStartGiven =>
           /\ vad_iterator_end = NoIterator
           /\ decoder_open => final_end_seconds = total_duration_seconds
           /\ command.built => (command.to = None /\ vad_iterator_start.created)
           /\ (pc = "exited" /\ Scanning) => vad_iterator_start.created

\* only --trim-start given, speech found after the start of the file, and
\* the command built
C8_Witness ==
    /\ OnlyTrimStartGiven /\ command.built
    /\ final_start_seconds > 0
    /\ \E r \in audio : r[2] < file_duration

\* C9: when both passes have succeeded the command carries the start bound,
\* also when it is 0, and carries the end bound exactly when the end is
\* less than the total duration.
C9_EndBoundAsymmetry ==
    (command.built /\ trim_start /\ trim_end) =>
        /\ command.ss = Some(final_start_seconds)
        /\ (final_end_seconds < total_duration_seconds) =>
               command.to = Some(final_end_seconds)
        /\ (final_end_seconds = total_duration_seconds) => command.to = None
        /\ final_end_seconds <= total_duration_seconds

\* both passes succeeded with start 0 and the end at the total duration
C9_Witness ==
    /\ command.built /\ trim_start /\ trim_end
    /\ found_start_speech /\ found_end_speech
    /\ final_start_seconds = 0 /\ command.ss = Some(0)
    /\ final_end_seconds = total_duration_seconds

\* the last diagnostic printed
LastMsg == IF stderr = <<>> THEN "" ELSE stderr[Len(stderr)]

C11_Idempotence ==
    (output_file /\ trim_start /\ trim_end
        /\ final_start_seconds < final_end_seconds) =>
        LET f == FwdScanOn(TrimmedAudio, TrimmedDuration, chunk_processing_size_seconds)
            b == BwdScanOn(TrimmedAudio, TrimmedDuration, chunk_processing_size_seconds)
        IN /\ f.found /\ b.found
           /\ f.start < WindowDuration
           /\ TrimmedDuration - b.end < WindowDuration

\* C12: whenever a window is about to be fed to the forward detector, the
\* detector's cumulative sample counter equals the window's sample offset
\* in the file.
C12_CounterIsFileOffset ==
    (pc = "fwd_windows" /\ i + VAD_WINDOW_SIZE_SAMPLES <= chunk.len) =>
        vad_iterator_start.current_sample = SamplesAt(chunk.start) + i

\* the samples the forward pass feeds from one whole chunk
SamplesFedPerChunk ==
    FullWindows(ChunkLen(0, chunk_processing_size_seconds)) * VAD_WINDOW_SIZE_SAMPLES

\* C13: the backward detector is reset before the first window of every
\* chunk (counter 0, not triggered); the forward detector is never reset:
\* its counter at the start of chunk k is the number of samples fed in the
\* chunks before.
C13_ResetPolicy ==
    /\ (pc = "bwd_windows" /\ i = 0) =>
           /\ vad_iterator_end.current_sample = 0
           /\ ~vad_iterator_end.triggered
    /\ pc = "bwd_windows" =>
           vad_iterator_end.current_sample =
               Min(i, FullWindows(chunk.len) * VAD_WINDOW_SIZE_SAMPLES)
    /\ vad_iterator_start.current_sample =
           vad_iterator_start.fed * VAD_WINDOW_SIZE_SAMPLES
    /\ (pc = "fwd_windows" /\ i = 0) =>
           vad_iterator_start.current_sample =
               (chunk.start \div chunk_processing_size_seconds) * SamplesFedPerChunk

\* the backward pass at the first window of its second chunk, after a
\* forward pass that went into its second chunk
C13_Witness ==
    /\ pc = "bwd_windows" /\ i = 0
    /\ chunk.end < total_duration_seconds
    /\ vad_iterator_end.fed > 0
    /\ vad_iterator_start.current_sample > SamplesFedPerChunk

RECURSIVE LastSpeechWindowOf(_, _, _)
\* the last window of speech among the windows lo .. hi - 1 of the chunk
\* that starts at t0, -1 when there is none
LastSpeechWindowOf(t0, lo, hi) ==
    IF hi <= lo THEN -1
    ELSE IF hi = lo + 1
         THEN IF WindowHasSpeech(t0, lo * VAD_WINDOW_SIZE_SAMPLES) THEN lo ELSE -1
         ELSE LET mid == (lo + hi) \div 2
                  right == LastSpeechWindowOf(t0, mid, hi)
              IN IF right >= 0 THEN right ELSE LastSpeechWindowOf(t0, lo, mid)

\* the last complete window of the current chunk that holds speech
LastSpeechWindow == LastSpeechWindowOf(chunk.start, 0, FullWindows(chunk.len))

\* the last complete window of the current chunk holds speech: the last
\* event of the chunk is a SpeechStart with no SpeechEnd after it
ChunkEndsInSpeech ==
    /\ FullWindows(chunk.len) > 0
    /\ LastSpeechWindow = FullWindows(chunk.len) - 1

\* the index of the last SpeechEnd of the current chunk: the sample at which
\* the window after the last window of speech begins
LastSpeechEndIndex == (LastSpeechWindow + 1) * VAD_WINDOW_SIZE_SAMPLES

\* C14: the chunk the backward pass returns from held speech; its local end
\* offset is the chunk's length when its last complete window ends in
\* speech (whatever SpeechEnd came before) and the index of its last SpeechEnd
\* otherwise; the end time is the chunk's start plus that offset in seconds,
\* within the chunk. While the windows are fed, is_speaking_in_chunk is the
\* detector's triggered state.
C14_EndComputation ==
    /\ pc = "bwd_windows" => is_speaking_in_chunk = vad_iterator_end.triggered
    /\ found_end_speech =>
           /\ LastSpeechWindow >= 0
           /\ final_end_seconds =
                  chunk.start + SecondsOf(IF ChunkEndsInSpeech THEN chunk.len
                                          ELSE LastSpeechEndIndex)
           /\ chunk.start <= final_end_seconds
           /\ final_end_seconds <= chunk.end

\* the pass returned from a chunk that ends in speech and holds an earlier
\* SpeechEnd
C14_Witness ==
    /\ found_end_speech
    /\ ChunkEndsInSpeech
    /\ \E j \in 1..(FullWindows(chunk.len) - 1) :
           /\ ~WindowHasSpeech(chunk.start, j * VAD_WINDOW_SIZE_SAMPLES)
           /\ WindowHasSpeech(chunk.start, (j - 1) * VAD_WINDOW_SIZE_SAMPLES)
    /\ final_end_seconds = chunk.end

\* the backward chunks after the current one, [t1 - 5 s, t1) for the ends
\* t1 the pass walks from the end of the file, hold no speech in their
\* complete windows
LaterChunksSilent ==
    \A k \in 0..(total_duration_seconds \div chunk_processing_size_seconds) :
        LET t1 == total_duration_seconds - k * chunk_processing_size_seconds
            t0 == Max(0, t1 - chunk_processing_size_seconds)
        IN t1 > chunk.end =>
               LastSpeechWindowOf(t0, 0, FullWindows(ChunkLen(t0, t1))) = -1

\* C15: the backward pass finds its end in a chunk with speech, every chunk
\* after which held none; once the end is found the detector is fed no
\* window and no chunk is fetched; and the pass goes on to an earlier chunk
\* only from a chunk that produced no speech.
C15_BackwardEarlyReturn ==
    [][/\ found_end_speech =>
              /\ found_end_speech'
              /\ vad_iterator_end' = vad_iterator_end
              /\ chunk' = chunk
              /\ final_end_seconds' = final_end_seconds
       /\ (~found_end_speech /\ found_end_speech') =>
              /\ LastSpeechWindow >= 0
              /\ LaterChunksSilent
       /\ (pc = "bwd_windows" /\ pc' = "bwd_loop") =>
              /\ LastSpeechWindow = -1
              /\ ~is_speaking_in_chunk
              /\ last_speech_offset_in_chunk_vad_sr = None
      ]_vars

\* the script ended after a backward pass that skipped one chunk and
\* returned from the next, leaving earlier audio, speech in it, unfetched
C15_Witness ==
    /\ pc = "exited"
    /\ found_end_speech
    /\ chunk.end < total_duration_seconds
    /\ chunk.start > 0
    /\ \E r \in audio : r[2] <= chunk.start
    /\ vad_iterator_end.fed = 2 * FullWindows(ChunkLen(0, chunk_processing_size_seconds))

\* C16: the forward pass takes its start from the first SpeechStart, as the
\* event's index / 16000; once found, the detector is fed no window, no
\* chunk is fetched and the start never changes; nothing else changes the
\* start.
C16_ForwardEarlyReturn ==
    [][/\ found_start_speech =>
              /\ found_start_speech'
              /\ vad_iterator_start' = vad_iterator_start
              /\ final_start_seconds' = final_start_seconds
              /\ pc' \notin {"fwd_loop", "fwd_windows"}
       /\ ~found_start_speech => ~vad_iterator_start.triggered
       /\ (~found_start_speech /\ found_start_speech') =>
              /\ pc = "fwd_windows"
              /\ WindowHasSpeech(chunk.start, i)
              /\ vad_iterator_start'.fed = vad_iterator_start.fed + 1
              /\ final_start_seconds' = SecondsOf(vad_iterator_start.current_sample)
       /\ final_start_seconds' # final_start_seconds =>
              (~found_start_speech /\ found_start_speech')
      ]_vars

\* the script ended after a forward pass that stopped at a SpeechStart past
\* 0 with more than a chunk of the file, speech in it, left unfetched
C16_Witness ==
    /\ pc = "exited"
    /\ found_start_speech
    /\ final_start_seconds > 0
    /\ final_start_seconds = SecondsOf(vad_iterator_start.current_sample - VAD_WINDOW_SIZE_SAMPLES)
    /\ chunk_processing_size_seconds < total_duration_seconds - final_start_seconds
    /\ \E r \in audio : r[1] > final_start_seconds + chunk_processing_size_seconds

\* C17: the backward pass starts on a new iterator and a reset model,
\* whatever the forward pass left in its own iterator and in the model they
\* share; while it feeds a chunk the model holds the windows of that chunk
\* only; and the end it finds is the end of the backward pass run alone on
\* the same file, whether or not the start side ran before.
C17_PassesIndependent ==
    /\ (pc = "bwd_loop" /\ current_offset_seconds = total_duration_seconds) =>
           /\ vad_iterator_end = NewIterator
           /\ model_state = ModelReset
    /\ pc = "bwd_windows" =>
           model_state * VAD_WINDOW_SIZE_SAMPLES = vad_iterator_end.current_sample
    /\ (pc = "command" /\ trim_end) =>
           LET alone == BwdScanOn(audio, file_duration, chunk_processing_size_seconds)
           IN alone.found /\ final_end_seconds = alone.end

\* both sides ran: the forward pass fed windows and left its iterator
\* triggered, and the backward pass found an end before the end of the file
C17_Witness ==
    /\ pc = "command"
    /\ trim_start /\ trim_end
    /\ found_start_speech /\ found_end_speech
    /\ vad_iterator_start.triggered
    /\ vad_iterator_start.fed > 1
    /\ final_end_seconds < total_duration_seconds

\* a window loop is running
InWindowLoop == pc \in {"fwd_windows", "bwd_windows"}

\* the window the loop is at is complete
AtCompleteWindow == i + VAD_WINDOW_SIZE_SAMPLES <= chunk.len

\* the chunks of the forward pass before the one at offset t
ChunksBefore(t) == t \div chunk_processing_size_seconds

\* C18: a detector is fed only by a window loop standing at a complete
\* window, which it takes as one window of 512 samples; the loop goes
\* through the chunk from left to right in steps of 512 samples, feeding
\* every complete window it is at, so that the detector has had each
\* complete window before the index once; a partial window is passed over
\* with the detectors and the model untouched.
C18_WindowFeeding ==
    [][/\ InWindowLoop => i % VAD_WINDOW_SIZE_SAMPLES = 0
       /\ (vad_iterator_start'.fed # vad_iterator_start.fed
              \/ vad_iterator_end'.fed # vad_iterator_end.fed) =>
              /\ InWindowLoop
              /\ AtCompleteWindow
       /\ (pc = "fwd_windows" /\ AtCompleteWindow) =>
              /\ vad_iterator_start'.fed = vad_iterator_start.fed + 1
              /\ vad_iterator_start'.current_sample =
                     vad_iterator_start.current_sample + VAD_WINDOW_SIZE_SAMPLES
              /\ vad_iterator_end' = vad_iterator_end
              /\ (i' = i + VAD_WINDOW_SIZE_SAMPLES \/ pc' # pc)
       /\ (pc = "bwd_windows" /\ AtCompleteWindow) =>
              /\ vad_iterator_end'.fed = vad_iterator_end.fed + 1
              /\ vad_iterator_end'.current_sample =
                     vad_iterator_end.current_sample + VAD_WINDOW_SIZE_SAMPLES
              /\ vad_iterator_start' = vad_iterator_start
              /\ i' = i + VAD_WINDOW_SIZE_SAMPLES
       /\ (InWindowLoop /\ ~AtCompleteWindow) =>
              /\ vad_iterator_start' = vad_iterator_start
              /\ vad_iterator_end' = vad_iterator_end
              /\ model_state' = model_state
       /\ pc = "fwd_windows" =>
              vad_iterator_start.fed =
                  ChunksBefore(chunk.start)
                      * FullWindows(ChunkLen(0, chunk_processing_size_seconds))
                  + Min(i \div VAD_WINDOW_SIZE_SAMPLES, FullWindows(chunk.len))
       /\ pc = "bwd_windows" =>
              vad_iterator_end.current_sample =
                  Min(i \div VAD_WINDOW_SIZE_SAMPLES, FullWindows(chunk.len))
                      * VAD_WINDOW_SIZE_SAMPLES
      ]_vars

\* the backward loop has passed over a partial window that holds speech:
\* the detector has had the complete windows only and is not triggered
C18_Witness ==
    /\ pc = "bwd_windows"
    /\ i >= chunk.len
    /\ FullWindows(chunk.len) > 0
    /\ chunk.len % VAD_WINDOW_SIZE_SAMPLES # 0
    /\ \E r \in audio :
           /\ r[1] >= chunk.start
                         + SecondsOf(FullWindows(chunk.len) * VAD_WINDOW_SIZE_SAMPLES)
           /\ r[2] <= chunk.end
    /\ vad_iterator_end.current_sample = FullWindows(chunk.len) * VAD_WINDOW_SIZE_SAMPLES
    /\ ~vad_iterator_end.triggered

\* ceil(total_duration_seconds / chunk_processing_size_seconds)
MaxChunks ==
    (total_duration_seconds + chunk_processing_size_seconds - 1)
        \div chunk_processing_size_seconds

InForwardPass == pc \in {"fwd_loop", "fwd_windows"}

InBackwardPass == pc \in {"bwd_loop", "bwd_windows"}

\* C19: the forward pass fetches [k * 5 s, min((k + 1) * 5 s, total)) for k =
\* 0, 1, ... , each chunk beginning where the one before ended; the backward
\* pass fetches [max(0, end - 5 s), end) for end = total, total - 5 s, ... ,
\* each chunk ending where the one before began; no chunk is empty or
\* numbered beyond ceil(total / 5 s); a pass that finds no speech ends with
\* its chunks reaching from 0 to total; and each pass is left.
C19_ChunkWalk ==
    /\ [][/\ pc = "fwd_windows" =>
                 /\ chunk.start = ChunksBefore(chunk.start) * chunk_processing_size_seconds
                 /\ chunk.start = current_offset_seconds
                 /\ chunk.end = Min(chunk.start + chunk_processing_size_seconds,
                                    total_duration_seconds)
                 /\ chunk.start < chunk.end
                 /\ ChunksBefore(chunk.start) + 1 <= MaxChunks
          /\ pc = "bwd_windows" =>
                 /\ (total_duration_seconds - chunk.end) % chunk_processing_size_seconds = 0
                 /\ chunk.end = current_offset_seconds
                 /\ chunk.start = Max(0, chunk.end - chunk_processing_size_seconds)
                 /\ chunk.start < chunk.end
                 /\ ChunksBefore(total_duration_seconds - chunk.end) + 1 <= MaxChunks
          /\ (pc = "fwd_loop" /\ pc' = "fwd_windows") =>
                 chunk'.start = IF current_offset_seconds = 0 THEN 0 ELSE chunk.end
          /\ (pc = "fwd_windows" /\ pc' = "fwd_loop") =>
                 /\ current_offset_seconds' = chunk.end
                 /\ current_offset_seconds' > current_offset_seconds
          /\ (pc = "bwd_loop" /\ pc' = "bwd_windows") =>
                 chunk'.end = IF current_offset_seconds = total_duration_seconds
                              THEN total_duration_seconds
                              ELSE chunk.start
          /\ (pc = "bwd_windows" /\ pc' = "bwd_loop") =>
                 /\ current_offset_seconds' = chunk.start
                 /\ current_offset_seconds' < current_offset_seconds
          /\ (pc = "fwd_loop" /\ pc' = "exited") =>
                 /\ chunk.end = total_duration_seconds
                 /\ ~(current_offset_seconds < total_duration_seconds)
          /\ (pc = "bwd_loop" /\ pc' = "exited") =>
                 /\ chunk.start = 0
                 /\ current_offset_seconds <= 0
         ]_vars
    /\ InForwardPass ~> ~InForwardPass
    /\ InBackwardPass ~> ~InBackwardPass

\* the backward pass has walked a silent file of more than two chunks, the
\* last of them shorter than the others, down to 0
C19_Witness ==
    /\ pc = "bwd_loop"
    /\ current_offset_seconds = 0
    /\ ~found_end_speech
    /\ total_duration_seconds > 2 * chunk_processing_size_seconds
    /\ chunk.start = 0
    /\ chunk.len < ChunkLen(0, chunk_processing_size_seconds)

====
